---- MODULE Spec2Model ----
(***************************************************************************)
(* Model of the chained hash table of src/src/HashTable.cpp: a fixed       *)
(* vector of head nodes (one per bucket), each head doubling as the first  *)
(* storage position of its bucket and as the start of a singly linked      *)
(* chain of heap-allocated overflow nodes.                                 *)
(***************************************************************************)
EXTENDS Integers, Sequences, FiniteSets, TLC

\* ------------------------------------------------------------------ bounds
NumIds == 2      \* non-empty identifiers drawn from IdPool
MaxNodes == 2    \* heap cells available to `new Node`
MaxSize == 2     \* constructor argument ranges over 0..MaxSize

\* --------------------------------------------------------------- constants
DEFAULT_SIZE == 179
\* <climits> UINT_MAX, the largest unsigned int; the checker's integers are 32-bit
\* signed, so the unsigned range is modelled one bit narrower (0 .. 2^31 - 1)
UINT_MAX == 2147483647

IdPool == <<"A", "K", "F", "P", "U", "Z">>
\* the identifiers passed to the table; "" is the empty std::string
Ids == {""} \cup {IdPool[i] : i \in 1..NumIds}
Payloads == {[title |-> "t1", fund |-> "f1", amount |-> 1],
             [title |-> "t2", fund |-> "f2", amount |-> 2]}
\* the records passed to Insert
Bids == {[bidId |-> id, title |-> p.title, fund |-> p.fund, amount |-> p.amount] :
            id \in Ids, p \in Payloads}

\* std::hash<std::string>{}(key): a fixed function of the build, here the sum of
\* the character codes of key ('A' = 65, 'F' = 70, ...; 0 for the empty string)
StdHash(key) == (("" :> 0) @@ [A |-> 65, F |-> 70, K |-> 75, P |-> 80, U |-> 85, Z |-> 90])[key]

\* Bid::Bid(): empty strings, amount 0.0
DefaultBid == [bidId |-> "", title |-> "", fund |-> "", amount |-> 0]

\* pointers: nullptr, &nodes[i], or the address of a heap node
NULL == <<"null", 0>>
SlotPtr(i) == <<"nodes", i>>
HeapPtr(a) == <<"heap", a>>
Addr == 1..MaxNodes

\* Node::Node(): key = UINT_MAX, next = nullptr, bid default-constructed
EmptyNode == [bid |-> DefaultBid, key |-> UINT_MAX, next |-> NULL]
\* faulty variant: the constructor delegates to Node() and drops the bid
NewNodeNoBid(aBid, aKey) == [bid |-> DefaultBid, key |-> aKey, next |-> NULL]
\* faulty variant: the constructor delegates to Node(aBid) and drops the key
NewNodeNoKey(aBid, aKey) == [bid |-> aBid, key |-> UINT_MAX, next |-> NULL]
\* faulty variant: the new node is linked back to the head of its bucket
NewNodeLinksHead(aBid, aKey) == [bid |-> aBid, key |-> aKey, next |-> SlotPtr(aKey)]
\* Node::Node(Bid aBid, unsigned int aKey)
NewNode(aBid, aKey) == [bid |-> aBid, key |-> aKey, next |-> NULL]
\* contents of a heap cell that holds no live node
FreedNode == [bid |-> DefaultBid, key |-> UINT_MAX, next |-> NULL]

VARIABLES
    tableSize,   \* HashTable::tableSize
    nodes,       \* HashTable::nodes, the vector of head nodes
    heap,        \* contents of the heap cells
    allocated,   \* heap cells obtained by new and not yet deleted
    call,        \* the last completed call: operation, arguments, path, result
    lastInsert   \* history: per identifier, the record of its latest Insert
                 \* not followed by a Remove (<<>> when there is none)

vars == <<tableSize, nodes, heap, allocated, call, lastInsert>>

Fuel == MaxNodes + 2

\* call.path names the return the call took; call.at is the node it wrote;
\* call.arg is the constructor's size argument (<<>> for the default constructor);
\* call.alias is the node whose storage the caller's copy of call.ret shares;
\* call.raw and call.idx are the hash value and the bucket index of a hash call
NoCall == [op |-> "new", bidId |-> "", bid |-> DefaultBid, path |-> "",
           at |-> NULL, ret |-> DefaultBid, out |-> <<>>, arg |-> <<>>,
           alias |-> NULL, raw |-> 0, idx |-> 0]

\* faulty variant: a size of 0 is taken as it is
ConstructKeepsZero(size) ==
    /\ tableSize = size
    /\ nodes = [i \in 0..(tableSize - 1) |-> EmptyNode]

\* HashTable::HashTable(unsigned int size)
Construct(size) ==
    /\ tableSize = (IF size = 0 THEN DEFAULT_SIZE ELSE size)
    /\ nodes = [i \in 0..(tableSize - 1) |-> EmptyNode]

\* HashTable::HashTable()
ConstructDefault ==
    /\ tableSize = DEFAULT_SIZE
    /\ nodes = [i \in 0..(tableSize - 1) |-> EmptyNode]

Init ==
    /\ \/ \E size \in 0..MaxSize : Construct(size) /\ call = [NoCall EXCEPT !.arg = <<size>>]
       \/ ConstructDefault /\ call = NoCall
    /\ heap = [a \in Addr |-> FreedNode]
    /\ allocated = {}
    /\ lastInsert = [id \in Ids |-> <<>>]

\* faulty variant: the hash value is returned without the modulo
HashIndexNoModulo(h, size) == h

\* the bucket index of hash value h in a table of size slots
HashIndex(h, size) == h % size

\* HashTable::hash(const std::string&)
hash(key) == HashIndex(StdHash(key), tableSize)

\* *p for a non-null pointer p
Deref(p) == IF p[1] = "nodes" THEN nodes[p[2]] ELSE heap[p[2]]

\* faulty variant: a write to a head always goes to slot 0
StoreNodesSlotZero(p, n) == IF p[1] = "nodes" THEN [nodes EXCEPT ![0] = n] ELSE nodes

\* the vector of heads / the heap after *p = n
StoreNodes(p, n) == IF p[1] = "nodes" THEN [nodes EXCEPT ![p[2]] = n] ELSE nodes
StoreHeap(p, n) == IF p[1] = "heap" THEN [heap EXCEPT ![p[2]] = n] ELSE heap

\* ------------------------------------------------------------------ Insert
\* faulty variant: the walk omits the duplicate check of the last node
RECURSIVE InsertWalkNoTail(_, _, _)
InsertWalkNoTail(curr_bucket, bidId, fuel) ==
    IF fuel = 0 THEN <<"diverge", curr_bucket>>
    ELSE IF Deref(curr_bucket).next # NULL
         THEN IF Deref(curr_bucket).bid.bidId = bidId
              THEN <<"update", curr_bucket>>
              ELSE InsertWalkNoTail(Deref(curr_bucket).next, bidId, fuel - 1)
         ELSE <<"append", curr_bucket>>

\* faulty variant: a new node is linked right behind the head
RECURSIVE InsertWalkAppendAtHead(_, _, _)
InsertWalkAppendAtHead(curr_bucket, bidId, fuel) ==
    IF fuel = 0 THEN <<"diverge", curr_bucket>>
    ELSE IF Deref(curr_bucket).next # NULL
         THEN IF Deref(curr_bucket).bid.bidId = bidId
              THEN <<"update", curr_bucket>>
              ELSE InsertWalkAppendAtHead(Deref(curr_bucket).next, bidId, fuel - 1)
         ELSE IF Deref(curr_bucket).bid.bidId = bidId
              THEN <<"update", curr_bucket>>
              ELSE <<"append", SlotPtr(hash(bidId))>>

\* the chain walk of Insert: <<"update", p>> when node p holds bidId,
\* <<"append", p>> when no node does and p is the last node
RECURSIVE InsertWalk(_, _, _)
InsertWalk(curr_bucket, bidId, fuel) ==
    IF fuel = 0 THEN <<"diverge", curr_bucket>>
    ELSE IF Deref(curr_bucket).next # NULL
         THEN IF Deref(curr_bucket).bid.bidId = bidId
              THEN <<"update", curr_bucket>>
              ELSE InsertWalk(Deref(curr_bucket).next, bidId, fuel - 1)
         ELSE IF Deref(curr_bucket).bid.bidId = bidId
              THEN <<"update", curr_bucket>>
              ELSE <<"append", curr_bucket>>

\* faulty variant: a record with an empty identifier does not mark the head occupied
FillHeadEmptyId(bucket_index, bid) ==
    [bid |-> bid, key |-> (IF bid.bidId = "" THEN UINT_MAX ELSE bucket_index),
     next |-> NULL]

\* the head node after Insert stored bid in the empty head of bucket_index
FillHead(bucket_index, bid) == [bid |-> bid, key |-> bucket_index, next |-> NULL]

Insert(bid) ==
    LET bucket_index == hash(bid.bidId)
        head == SlotPtr(bucket_index)
        w == InsertWalk(head, bid.bidId, Fuel)
        done(path, at) == /\ call' = [NoCall EXCEPT !.op = "Insert", !.bidId = bid.bidId,
                                                    !.bid = bid, !.path = path, !.at = at]
                      /\ lastInsert' = [lastInsert EXCEPT ![bid.bidId] = <<bid>>]
                      /\ UNCHANGED tableSize
    IN  IF Deref(head).key = UINT_MAX
        THEN /\ nodes' = StoreNodes(head, FillHead(bucket_index, bid))
             /\ UNCHANGED <<heap, allocated>>
             /\ done("fill", head)
        ELSE IF w[1] = "update"
        THEN /\ nodes' = StoreNodes(w[2], [Deref(w[2]) EXCEPT !.bid = bid])
             /\ heap' = StoreHeap(w[2], [Deref(w[2]) EXCEPT !.bid = bid])
             /\ UNCHANGED allocated
             /\ done("update", w[2])
        ELSE /\ w[1] = "append"
             /\ \E a \in Addr \ allocated :
                   LET newNode == HeapPtr(a)
                       linked == [Deref(w[2]) EXCEPT !.next = newNode]
                   IN  /\ nodes' = StoreNodes(w[2], linked)
                       /\ heap' = [StoreHeap(w[2], linked) EXCEPT
                                       ![a] = NewNode(bid, bucket_index)]
                       /\ allocated' = allocated \cup {a}
             /\ done("append", w[2])

\* ------------------------------------------------------------------ Search
RECURSIVE SearchWalk(_, _, _)
SearchWalk(curr_bucket, bidId, fuel) ==
    IF fuel = 0 \/ curr_bucket = NULL THEN DefaultBid
    ELSE IF Deref(curr_bucket).bid.bidId = bidId
         THEN Deref(curr_bucket).bid
         ELSE SearchWalk(Deref(curr_bucket).next, bidId, fuel - 1)

\* faulty variant: any occupied head is taken as the match
SearchHeadMatchAnyId(head, bidId) == head.key # UINT_MAX

\* the test "the bucket head holds bidId" of Search
SearchHeadMatch(head, bidId) == head.key # UINT_MAX /\ head.bid.bidId = bidId

\* the Bid that HashTable::Search(bidId) returns in the current state
SearchResult(bidId) ==
    LET head == nodes[hash(bidId)]
    IN  IF SearchHeadMatch(head, bidId)
        THEN head.bid
        ELSE SearchWalk(head.next, bidId, Fuel)

\* the node whose record the walk of Search returns (nullptr on a miss)
RECURSIVE SearchWalkNode(_, _, _)
SearchWalkNode(curr_bucket, bidId, fuel) ==
    IF fuel = 0 \/ curr_bucket = NULL THEN NULL
    ELSE IF Deref(curr_bucket).bid.bidId = bidId
         THEN curr_bucket
         ELSE SearchWalkNode(Deref(curr_bucket).next, bidId, fuel - 1)

\* the node whose record HashTable::Search(bidId) returns (nullptr on a miss)
SearchNode(bidId) ==
    LET head == nodes[hash(bidId)]
    IN  IF SearchHeadMatch(head, bidId)
        THEN SlotPtr(hash(bidId))
        ELSE SearchWalkNode(head.next, bidId, Fuel)

\* faulty variant: Search returns Bid&, a reference into the node
ReturnAliasRef(p) == p

\* Search returns Bid by value: the caller's object shares storage with no node
ReturnAlias(p) == NULL

Search(bidId) ==
    /\ call' = [NoCall EXCEPT !.op = "Search", !.bidId = bidId,
                              !.ret = SearchResult(bidId),
                              !.alias = ReturnAlias(SearchNode(bidId))]
    /\ UNCHANGED <<tableSize, nodes, heap, allocated, lastInsert>>

\* the caller assigns to a field of the Bid it got from Search; the write
\* reaches a node only when the caller's object is that node's record
CallerModify ==
    /\ call.op = "Search"
    /\ LET edited == [call.ret EXCEPT !.title = "edited"]
       IN  /\ call' = [call EXCEPT !.op = "Modify", !.ret = edited]
           /\ IF call.alias = NULL
              THEN UNCHANGED <<nodes, heap>>
              ELSE /\ nodes' = StoreNodes(call.alias, [Deref(call.alias) EXCEPT !.bid = edited])
                   /\ heap' = StoreHeap(call.alias, [Deref(call.alias) EXCEPT !.bid = edited])
    /\ UNCHANGED <<tableSize, allocated, lastInsert>>

\* ---------------------------------------------------------------- PrintAll
\* faulty variant: the walk stops at the last node instead of after it
RECURSIVE PrintChainSkipLast(_, _)
PrintChainSkipLast(iter, fuel) ==
    IF fuel = 0 \/ Deref(iter).next = NULL THEN <<>>
    ELSE (IF Deref(iter).key # UINT_MAX
          THEN <<[key |-> Deref(iter).key, bid |-> Deref(iter).bid]>>
          ELSE <<>>) \o PrintChainSkipLast(Deref(iter).next, fuel - 1)

RECURSIVE PrintChain(_, _)
PrintChain(iter, fuel) ==
    IF fuel = 0 \/ iter = NULL THEN <<>>
    ELSE (IF Deref(iter).key # UINT_MAX
          THEN <<[key |-> Deref(iter).key, bid |-> Deref(iter).bid]>>
          ELSE <<>>) \o PrintChain(Deref(iter).next, fuel - 1)

\* faulty variant: the loop runs from the last bucket down to the first
RECURSIVE PrintRangeDescending(_, _)
PrintRangeDescending(lo, hi) ==
    IF lo > hi THEN <<>>
    ELSE IF lo = hi THEN PrintChain(SlotPtr(lo), Fuel)
    ELSE LET mid == (lo + hi) \div 2
         IN  PrintRangeDescending(mid + 1, hi) \o PrintRangeDescending(lo, mid)

\* the lines of buckets lo..hi in increasing bucket index (the for loop of
\* PrintAll, split in halves to keep the evaluation shallow)
RECURSIVE PrintRange(_, _)
PrintRange(lo, hi) ==
    IF lo > hi THEN <<>>
    ELSE IF lo = hi THEN PrintChain(SlotPtr(lo), Fuel)
    ELSE LET mid == (lo + hi) \div 2
         IN  PrintRange(lo, mid) \o PrintRange(mid + 1, hi)

\* the lines that HashTable::PrintAll() writes in the current state
PrintAllLines == PrintRange(0, tableSize - 1)

PrintAll ==
    /\ call' = [NoCall EXCEPT !.op = "PrintAll", !.out = PrintAllLines]
    /\ UNCHANGED <<tableSize, nodes, heap, allocated, lastInsert>>

\* ------------------------------------------------------------------ Remove
\* faulty variant: the walk stops at the last node instead of after it
RECURSIVE RemoveWalkSkipTail(_, _, _, _)
RemoveWalkSkipTail(prev_bucket, curr_bucket, bidId, fuel) ==
    IF fuel = 0 \/ curr_bucket = NULL \/ Deref(curr_bucket).next = NULL
    THEN <<"miss", prev_bucket, curr_bucket>>
    ELSE IF Deref(curr_bucket).bid.bidId = bidId
         THEN <<"unlink", prev_bucket, curr_bucket>>
         ELSE RemoveWalkSkipTail(curr_bucket, Deref(curr_bucket).next, bidId, fuel - 1)

\* the chain walk of Remove: <<"unlink", prev, curr>> when curr holds bidId
RECURSIVE RemoveWalk(_, _, _, _)
RemoveWalk(prev_bucket, curr_bucket, bidId, fuel) ==
    IF fuel = 0 \/ curr_bucket = NULL THEN <<"miss", prev_bucket, curr_bucket>>
    ELSE IF Deref(curr_bucket).bid.bidId = bidId
         THEN <<"unlink", prev_bucket, curr_bucket>>
         ELSE RemoveWalk(curr_bucket, Deref(curr_bucket).next, bidId, fuel - 1)

\* faulty variant: any occupied head is taken as the match
RemoveHeadMatchAnyId(head, bidId) == head.key # UINT_MAX

\* the test "head node matches" of Remove
RemoveHeadMatch(head, bidId) == head.key # UINT_MAX /\ head.bid.bidId = bidId

\* faulty variant: the promotion does not relink the head to the successor
PromoteDropsRest(nextBucket) ==
    [bid |-> Deref(nextBucket).bid, next |-> NULL, key |-> Deref(nextBucket).key]

\* faulty variant: the head keeps pointing at the node that is deleted
PromoteKeepsDeleted(nextBucket) ==
    [bid |-> Deref(nextBucket).bid, next |-> nextBucket, key |-> Deref(nextBucket).key]

\* faulty variant: the promoted head keeps the empty marker as its key
PromoteKeepsMarker(nextBucket) ==
    [bid |-> Deref(nextBucket).bid, next |-> Deref(nextBucket).next, key |-> UINT_MAX]

\* the head node after the first chained node nextBucket was promoted into it
Promote(nextBucket) ==
    [bid |-> Deref(nextBucket).bid, next |-> Deref(nextBucket).next,
     key |-> Deref(nextBucket).key]

\* faulty variant: the predecessor is cut off instead of relinked
UnlinkDropsRest(prev_bucket, curr_bucket) ==
    [Deref(prev_bucket) EXCEPT !.next = NULL]

\* the node *prev_bucket after curr_bucket was unlinked behind it
Unlink(prev_bucket, curr_bucket) ==
    [Deref(prev_bucket) EXCEPT !.next = Deref(curr_bucket).next]

\* faulty variant: the head is marked empty but keeps the removed record
ClearHeadKeepsBid(head) == [Deref(head) EXCEPT !.key = UINT_MAX, !.next = NULL]

\* the head node after Remove cleared the only record of its bucket
ClearHead(head) == [key |-> UINT_MAX, bid |-> DefaultBid, next |-> NULL]

Remove(bidId) ==
    LET bucket_index == hash(bidId)
        head == SlotPtr(bucket_index)
        w == RemoveWalk(head, Deref(head).next, bidId, Fuel)
        done(path, at) == /\ call' = [NoCall EXCEPT !.op = "Remove", !.bidId = bidId,
                                                    !.path = path, !.at = at]
                      /\ lastInsert' = [lastInsert EXCEPT ![bidId] = <<>>]
                      /\ UNCHANGED tableSize
    IN  IF Deref(head).key = UINT_MAX /\ Deref(head).next = NULL
        THEN /\ UNCHANGED <<nodes, heap, allocated>>
             /\ done("empty", NULL)
        ELSE IF RemoveHeadMatch(Deref(head), bidId)
        THEN IF Deref(head).next = NULL
             THEN /\ nodes' = StoreNodes(head, ClearHead(head))
                  /\ UNCHANGED <<heap, allocated>>
                  /\ done("clear", head)
             ELSE LET nextBucket == Deref(head).next
                  IN  /\ nodes' = StoreNodes(head, Promote(nextBucket))
                      /\ heap' = StoreHeap(nextBucket, FreedNode)
                      /\ allocated' = allocated \ {nextBucket[2]}
                      /\ done("promote", head)
        ELSE IF w[1] = "unlink"
        THEN /\ nodes' = StoreNodes(w[2], Unlink(w[2], w[3]))
             /\ heap' = [StoreHeap(w[2], Unlink(w[2], w[3])) EXCEPT ![w[3][2]] = FreedNode]
             /\ allocated' = allocated \ {w[3][2]}
             /\ done("unlink", w[2])
        ELSE /\ UNCHANGED <<nodes, heap, allocated>>
             /\ done("miss", NULL)

\* -------------------------------------------------------------- ~HashTable
\* the memory seen by the destructor: cell contents, live cells, the cells
\* deleted so far in order, and the accesses to cells that were not live
DestroyStart == [heap |-> heap, allocated |-> allocated, deleted |-> <<>>, faults |-> {}]

\* faulty variant: the successor is read from the node after its delete
DestroyStepReadAfterDelete(st, a) ==
    LET freed == [st EXCEPT !.heap[a] = FreedNode,
                            !.allocated = @ \ {a},
                            !.deleted = Append(@, a),
                            !.faults = @ \cup (IF a \in st.allocated THEN {}
                                               ELSE {"deleted twice"})]
    IN  <<[freed EXCEPT !.faults = @ \cup {"read after delete"}], freed.heap[a].next>>

\* one round of the while loop on the node in cell a: read its successor,
\* delete it; the result is the memory afterwards and the successor
DestroyStep(st, a) ==
    LET nextBucket == st.heap[a].next
        readFault == IF a \in st.allocated THEN {} ELSE {"read after delete"}
        freeFault == IF a \in st.allocated THEN {} ELSE {"deleted twice"}
    IN  <<[st EXCEPT !.heap[a] = FreedNode,
                     !.allocated = @ \ {a},
                     !.deleted = Append(@, a),
                     !.faults = @ \cup readFault \cup freeFault], nextBucket>>

\* the while loop of the destructor from curr_bucket on
RECURSIVE DestroyChain(_, _, _)
DestroyChain(st, curr_bucket, fuel) ==
    IF fuel = 0 \/ curr_bucket = NULL THEN st
    ELSE LET r == DestroyStep(st, curr_bucket[2])
         IN  DestroyChain(r[1], r[2], fuel - 1)

\* the buckets whose while loop runs at least once; on every other bucket
\* the body of the for loop leaves memory as it is
ChainedBuckets == {i \in 0..(tableSize - 1) : nodes[i].next # NULL}

\* the for loop of the destructor, over the buckets of todo in increasing index
RECURSIVE DestroyBuckets(_, _)
DestroyBuckets(st, todo) ==
    IF todo = {} THEN st
    ELSE LET i == CHOOSE j \in todo : \A k \in todo : j <= k
         IN  DestroyBuckets(DestroyChain(st, nodes[i].next, Fuel), todo \ {i})

\* the table object exists: its destructor has not run
Alive == call.op # "~HashTable"

\* HashTable::~HashTable(): every chain is walked and deleted, every head is
\* reset, and the vector of heads is cleared
Destroy ==
    /\ Alive
    /\ LET st == DestroyBuckets(DestroyStart, ChainedBuckets)
       IN  /\ heap' = st.heap
           /\ allocated' = st.allocated
           /\ call' = [NoCall EXCEPT !.op = "~HashTable", !.out = st.deleted,
                                     !.path = IF st.faults = {} THEN "clean" ELSE "fault"]
    /\ nodes' = <<>>
    /\ UNCHANGED <<tableSize, lastInsert>>

\* -------------------------------------------------------------------- Next
DoInsert == \E bid \in Bids : Insert(bid)
DoRemove == \E bidId \in Ids : Remove(bidId)
DoSearch == \E bidId \in Ids : Search(bidId)

Next == DoInsert \/ DoRemove \/ DoSearch \/ PrintAll \/ CallerModify

Spec == Init /\ [][Next]_vars

\* the life of a table object up to its destruction
NextTeardown == (Alive /\ DoInsert) \/ (Alive /\ DoRemove) \/ Destroy
SpecTeardown == Init /\ [][NextTeardown]_vars

\* hash alone, for table sizes up to the largest unsigned int and hash values
\* up to the largest modelled one; the vector of heads is not materialised
HashSizes == (1..MaxSize) \cup {DEFAULT_SIZE, UINT_MAX - 1, UINT_MAX}
RawHashes == (0..(16 * MaxSize)) \cup {UINT_MAX - k : k \in 0..MaxSize}
                \cup {StdHash(id) : id \in Ids}
InitHash ==
    /\ tableSize \in HashSizes
    /\ nodes = <<>>
    /\ heap = [a \in Addr |-> FreedNode]
    /\ allocated = {}
    /\ call = [NoCall EXCEPT !.arg = <<tableSize>>]
    /\ lastInsert = [id \in Ids |-> <<>>]
HashProbe ==
    /\ \E h \in RawHashes :
          call' = [NoCall EXCEPT !.op = "hash", !.raw = h, !.idx = HashIndex(h, tableSize)]
    /\ UNCHANGED <<tableSize, nodes, heap, allocated, lastInsert>>
SpecHash == InitHash /\ [][HashProbe]_vars

\* hash(int) alone, for table sizes and int keys up to both ends of the range.
\* int has the width of unsigned int: with the unsigned range modelled as
\* 0 .. UINT_MAX, int is INT_MIN .. INT_MAX in two's complement
INT_MAX == UINT_MAX \div 2
INT_MIN == (-INT_MAX) - 1
\* static_cast<unsigned int>(key): key modulo UINT_MAX + 1
ToUnsigned(key) == IF key >= 0 THEN key ELSE (key + UINT_MAX) + 1
\* faulty variant: the remainder is taken in signed arithmetic (it truncates
\* toward zero and has the sign of key)
hashIntSigned(key) == IF key >= 0 THEN key % tableSize ELSE -((-key) % tableSize)
\* HashTable::hash(int key)
hashInt(key) == ToUnsigned(key) % tableSize
IntKeys == ((-(16 * MaxSize))..(16 * MaxSize))
              \cup {INT_MIN + k : k \in 0..MaxSize} \cup {INT_MAX - k : k \in 0..MaxSize}
              \cup {-DEFAULT_SIZE, DEFAULT_SIZE}
IntHashProbe ==
    /\ \E key \in IntKeys :
          call' = [NoCall EXCEPT !.op = "hash(int)", !.raw = key, !.idx = hashInt(key)]
    /\ UNCHANGED <<tableSize, nodes, heap, allocated, lastInsert>>
SpecIntHash == InitHash /\ [][IntHashProbe]_vars

\* the table under callers that keep the precondition of Insert: every inserted
\* record has a non-empty identifier
DoInsertNonEmpty == \E bid \in {b \in Bids : b.bidId # ""} : Insert(bid)
NextNonEmpty == DoInsertNonEmpty \/ DoRemove
SpecNonEmpty == Init /\ [][NextNonEmpty]_vars

\* ------------------------------------------------- vocabulary of the claims
Range(f) == {f[i] : i \in DOMAIN f}

\* the pointers met from p on by following next
RECURSIVE ChainFrom(_, _)
ChainFrom(p, fuel) ==
    IF fuel = 0 \/ p = NULL THEN <<>>
    ELSE <<p>> \o ChainFrom(Deref(p).next, fuel - 1)

\* bucket i: its head slot followed by its overflow nodes
Bucket(i) == ChainFrom(SlotPtr(i), Fuel)
Overflow(i) == ChainFrom(nodes[i].next, Fuel)

Buckets == 0..(tableSize - 1)
OccupiedHeads == {SlotPtr(i) : i \in {j \in Buckets : nodes[j].key # UINT_MAX}}
OverflowNodes == UNION {Range(Overflow(i)) : i \in {j \in Buckets : nodes[j].next # NULL}}
\* the occupied nodes of the table
Occupied == OccupiedHeads \cup OverflowNodes
\* the occupied nodes that store identifier id
Holders(id) == {p \in Occupied : Deref(p).bid.bidId = id}
Stored(id) == Holders(id) # {}
\* the records stored under identifier id
HeldBids(id) == {Deref(p).bid : p \in Holders(id)}
\* Search returns every stored record when asked for its identifier
SearchFindsAll == \A p \in Occupied : SearchResult(Deref(p).bid.bidId) = Deref(p).bid

\* C1: right after Insert(R) with a non-empty identifier, Search(R.bidId) returns
\* a record equal to R in bidId, title, fund and amount.
C1_RoundTrip ==
    (call.op = "Insert" /\ call.bidId # "") => SearchResult(call.bidId) = call.bid

\* an Insert that appended R behind an overflow node, found again by Search
C1_Witness ==
    /\ call.op = "Insert" /\ call.path = "append" /\ call.bidId # ""
    /\ call.at[1] = "heap"
    /\ SearchResult(call.bidId) = call.bid

\* C2: an Insert of an identifier that is already stored with another payload
\* leaves exactly one occupied node with that identifier, holding the record of
\* this Insert, and PrintAll enumerates as many records as before.
C2_UpdateNotDuplicate ==
    [][call'.op = "Insert"
       => \A bid \in Bids :
             (/\ call'.bid = bid
              /\ Stored(bid.bidId)
              /\ bid \notin HeldBids(bid.bidId))
             => /\ Cardinality(Holders(bid.bidId)') = 1
                /\ HeldBids(bid.bidId)' = {bid}
                /\ Len(PrintAllLines') = Len(PrintAllLines)]_vars

\* an Insert that overwrote the record of the last node of an overflow chain
C2_Witness ==
    /\ call.op = "Insert" /\ call.path = "update"
    /\ call.at[1] = "heap" /\ Deref(call.at).next = NULL
    /\ Deref(call.at).bid = call.bid

\* C3: right after Remove(id), Search(id) returns the sentinel record.
C3_RemovedNotFound ==
    call.op = "Remove" => SearchResult(call.bidId) = DefaultBid

\* a Remove that unlinked a node in the middle of a chain (a successor remains)
C3_Witness ==
    /\ call.op = "Remove" /\ call.path = "unlink"
    /\ Deref(call.at).next # NULL
    /\ SearchResult(call.bidId) = DefaultBid

\* C4: a Remove of an identifier that is not stored changes no head slot, no
\* overflow node and not the set of allocated nodes, and returns normally.
C4_RemoveAbsentNoOp ==
    [][(call'.op = "Remove" /\ \E id \in Ids : call'.bidId = id /\ ~Stored(id))
       => /\ nodes' = nodes /\ heap' = heap /\ allocated' = allocated
          /\ call'.path \in {"empty", "miss"}]_vars

\* a Remove of an absent identifier whose bucket holds a head and a chain
C4_Witness ==
    /\ call.op = "Remove" /\ call.path = "miss"
    /\ Len(Bucket(hash(call.bidId))) >= 2

\* C5: Search finds every stored record, and a Remove leaves the Search result
\* of every other identifier of the same bucket unchanged.
C5_CollisionCorrect ==
    /\ []SearchFindsAll
    /\ [][call'.op = "Remove"
          => \A removed \in Ids :
                call'.bidId = removed
                => \A id \in Ids \ {removed} :
                      (hash(id) = hash(removed) /\ Stored(id))
                      => /\ SearchResult(id)' = SearchResult(id)
                         /\ Stored(id)']_vars

\* a Remove of the head occupant of a bucket that keeps two colliding records
C5_Witness ==
    /\ call.op = "Remove" /\ call.path = "promote"
    /\ Len(Bucket(hash(call.bidId))) >= 2
    /\ \A p \in Range(Bucket(hash(call.bidId))) :
           SearchResult(Deref(p).bid.bidId) = Deref(p).bid

\* the identifiers inserted and not removed since
Present == {id \in Ids : lastInsert[id] # <<>>}
LineIds(out) == {out[k].bid.bidId : k \in DOMAIN out}

\* C6: PrintAll writes one line per identifier inserted and not removed since,
\* no line for any other identifier, and no identifier twice.
C6_EnumerationComplete ==
    call.op = "PrintAll"
    => /\ LineIds(call.out) = Present
       /\ Len(call.out) = Cardinality(Present)

\* a PrintAll of a table with a chain, while some identifier is not present
C6_Witness ==
    /\ call.op = "PrintAll" /\ Len(call.out) >= 2
    /\ \E i \in Buckets : Len(Bucket(i)) >= 2
    /\ Present # Ids
    /\ LineIds(call.out) = Present

\* C7: no two occupied nodes store records with the same identifier.
C7_UniqueIds ==
    \A p, q \in Occupied : p # q => Deref(p).bid.bidId # Deref(q).bid.bidId

\* an Insert of a stored identifier into a bucket of three records
C7_Witness ==
    /\ call.op = "Insert" /\ call.path = "update"
    /\ Len(Bucket(hash(call.bidId))) >= 3
    /\ Cardinality(Holders(call.bidId)) = 1

\* C8: every occupied head slot nodes[i] has key = i, and after a Remove
\* promoted the first overflow node, the head of that bucket is occupied with
\* key equal to its index and Search finds the promoted identifier.
C8_HeadKeyIsIndex ==
    /\ \A i \in Buckets : nodes[i].key # UINT_MAX => nodes[i].key = i
    /\ call.path = "promote"
       => LET i == hash(call.bidId)
          IN  /\ nodes[i].key = i
              /\ SearchResult(nodes[i].bid.bidId) = nodes[i].bid

\* a promotion in a bucket other than bucket 0, with a chain left behind the head
C8_Witness ==
    /\ call.op = "Remove" /\ call.path = "promote"
    /\ hash(call.bidId) # 0
    /\ nodes[hash(call.bidId)].key = hash(call.bidId)
    /\ nodes[hash(call.bidId)].bid.bidId # ""

\* C9 as stated: for every identifier, Search returns a record with an empty
\* identifier exactly when the identifier is not stored, and the sentinel on a miss.
C9_Original ==
    call.op = "Search"
    => /\ (call.ret.bidId = "") <=> ~Stored(call.bidId)
       /\ ~Stored(call.bidId) => call.ret = DefaultBid

\* C9 amended: for every non-empty identifier, Search returns a record with an
\* empty identifier exactly when the identifier is not stored, and on a miss the
\* result is the sentinel record.
C9_FoundByIdentifier ==
    (call.op = "Search" /\ call.bidId # "")
    => /\ (call.ret.bidId = "") <=> ~Stored(call.bidId)
       /\ ~Stored(call.bidId) => call.ret = DefaultBid

\* a Search miss for a non-empty identifier in a bucket whose head is occupied
C9_Witness ==
    /\ call.op = "Search" /\ call.bidId # "" /\ call.ret = DefaultBid
    /\ nodes[hash(call.bidId)].key # UINT_MAX

\* C10: an Insert of a record with the empty identifier returns normally and the
\* record is held by an occupied node of the bucket the empty string hashes to.
C10_EmptyIdStored ==
    (call.op = "Insert" /\ call.bidId = "")
    => /\ call.path \in {"fill", "update", "append"}
       /\ \E p \in Range(Bucket(hash(""))) :
             /\ p \in Occupied
             /\ Deref(p).bid = call.bid

\* an Insert of the empty identifier that filled an empty head slot
C10_Witness ==
    /\ call.op = "Insert" /\ call.bidId = "" /\ call.path = "fill"
    /\ nodes[hash("")].key = hash("") /\ nodes[hash("")].bid = call.bid

\* the number of bucket slots the constructor call recorded in c asks for
ExpectedSize(c) == IF c.arg = <<>> \/ c.arg = <<0>> THEN DEFAULT_SIZE ELSE c.arg[1]

\* C11: right after construction the table has as many slots as the size given
\* (179 for size 0 or no size), each unoccupied with no chain, and no Insert,
\* Remove, Search or PrintAll changes the number of slots.
C11_FixedCapacity ==
    /\ [](call.op = "new"
          => /\ tableSize = ExpectedSize(call)
             /\ DOMAIN nodes = 0..(ExpectedSize(call) - 1)
             /\ \A i \in DOMAIN nodes : nodes[i] = EmptyNode)
    /\ [][tableSize' = tableSize /\ DOMAIN nodes' = DOMAIN nodes]_vars

\* a table of the default capacity that still holds 179 slots after a Remove
\* emptied one of them
C11_Witness ==
    /\ call.op = "Remove" /\ call.path = "clear"
    /\ tableSize = DEFAULT_SIZE /\ Cardinality(DOMAIN nodes) = DEFAULT_SIZE
    /\ Present # {}

\* C12: for every identifier, Search returns the record of the latest Insert of
\* that identifier when no Remove of it came after, and the sentinel otherwise.
C12_RefinesMap ==
    \A id \in Ids :
        SearchResult(id) = (IF lastInsert[id] = <<>> THEN DefaultBid ELSE lastInsert[id][1])

\* after a Remove, two non-empty identifiers remain present in one bucket and a
\* third identifier is absent
C12_Witness ==
    /\ call.op = "Remove" /\ call.path \in {"promote", "unlink"}
    /\ \E id1, id2 \in Present \ {""} :
          /\ id1 # id2 /\ hash(id1) = hash(id2)
          /\ SearchResult(id1) = lastInsert[id1][1]
          /\ SearchResult(id2) = lastInsert[id2][1]
    /\ SearchResult(call.bidId) = DefaultBid

\* the overflow chain of bucket i: its node addresses and the nodes stored there
OverflowChain(i) == [k \in 1..Len(Overflow(i)) |-> <<Overflow(i)[k], Deref(Overflow(i)[k])>>]

\* C13: an Insert or Remove leaves the head slot (key, record, next) and the
\* overflow chain of every bucket other than the one its identifier hashes to
\* as they were.
C13_SingleBucketFrame ==
    [][call'.op \in {"Insert", "Remove"}
       => \A id \in Ids :
             call'.bidId = id
             => \A i \in Buckets \ {hash(id)} :
                   /\ nodes'[i] = nodes[i]
                   /\ OverflowChain(i)' = OverflowChain(i)]_vars

\* an Insert or Remove that changed its own bucket while another bucket holds a chain
C13_Witness ==
    /\ call.op \in {"Insert", "Remove"}
    /\ call.path \in {"fill", "update", "clear"}
    /\ \E i \in Buckets \ {hash(call.bidId)} : Len(Overflow(i)) >= 1

\* C14: a Search (hit or miss) or a PrintAll changes no head slot, no overflow
\* node and not the set of allocated nodes, and a caller's assignment to the
\* record a Search returned changes no Search result.
C14_ReadOnly ==
    [][/\ call'.op \in {"Search", "PrintAll"}
          => nodes' = nodes /\ heap' = heap /\ allocated' = allocated
       /\ call'.op = "Modify"
          => /\ \A id \in Ids : SearchResult(id)' = SearchResult(id)
             /\ nodes' = nodes /\ heap' = heap /\ allocated' = allocated]_vars

\* the caller edited the record a Search found in an overflow node; the node
\* still holds the record as it was inserted
C14_Witness ==
    /\ call.op = "Modify" /\ call.ret.title = "edited" /\ call.ret.bidId # ""
    /\ SearchNode(call.bidId)[1] = "heap"
    /\ SearchResult(call.bidId) = lastInsert[call.bidId][1]

\* the identifiers stored from node p on along next: a head slot counts when
\* it is occupied, an overflow node always
RECURSIVE IdsFrom(_, _)
IdsFrom(p, fuel) ==
    IF fuel = 0 \/ p = NULL THEN <<>>
    ELSE (IF p[1] = "heap" \/ Deref(p).key # UINT_MAX
          THEN <<Deref(p).bid.bidId>> ELSE <<>>)
         \o IdsFrom(Deref(p).next, fuel - 1)
\* the identifiers of bucket i in storage order: the head slot when occupied,
\* then the overflow nodes along the chain
BucketIds(i) == IdsFrom(SlotPtr(i), Fuel)
\* s without the element x
Without(s, x) == LET other(y) == y # x IN SelectSeq(s, other)

\* C15: the storage order of a bucket is the order of first insertion since the
\* last removal: an Insert of an identifier the bucket does not hold appends it
\* at the end, an Insert of one it holds changes no position, and a Remove takes
\* its identifier out and keeps the order of the others.
C15_InsertionOrder ==
    [][call'.op \in {"Insert", "Remove"}
       => \A id \in {call'.bidId} \cap Ids :
             LET before == BucketIds(hash(id))
                 after == BucketIds(hash(id))'
             IN  IF call'.op = "Remove" THEN after = Without(before, id)
                 ELSE IF id \in Range(before) THEN after = before
                 ELSE after = Append(before, id)]_vars

\* an Insert appended a third identifier behind the two its bucket already held
C15_Witness ==
    /\ call.op = "Insert" /\ call.path = "append"
    /\ Len(BucketIds(hash(call.bidId))) = 3
    /\ BucketIds(hash(call.bidId))[3] = call.bidId

\* the records of bucket i in storage order: the head slot when occupied, then
\* the overflow nodes along the chain
BucketBids(i) ==
    LET holds(p) == p[1] = "heap" \/ Deref(p).key # UINT_MAX
        occ == SelectSeq(Bucket(i), holds)
    IN  [k \in 1..Len(occ) |-> Deref(occ[k]).bid]
\* the records that the lines of out print for bucket i, in output order
LinesOf(out, i) ==
    LET mine(line) == line.key = i
        sel == SelectSeq(out, mine)
    IN  [k \in 1..Len(sel) |-> sel[k].bid]

\* C16: the lines of PrintAll come in increasing bucket index, and the lines of
\* one bucket are its head record followed by its overflow records in chain
\* order; a bucket with an unoccupied head contributes no line.
C16_EnumerationOrder ==
    call.op = "PrintAll"
    => /\ \A k \in 1..(Len(call.out) - 1) : call.out[k].key <= call.out[k + 1].key
       /\ \A k \in 1..Len(call.out) : call.out[k].key \in Buckets
       /\ \A i \in Buckets : LinesOf(call.out, i) = BucketBids(i)
       /\ \A i \in Buckets : nodes[i].key = UINT_MAX => LinesOf(call.out, i) = <<>>

\* a PrintAll of two buckets, the later one with a head and an overflow node
C16_Witness ==
    /\ call.op = "PrintAll" /\ Len(call.out) >= 3
    /\ call.out[1].key < call.out[2].key
    /\ call.out[2].key = call.out[3].key
    /\ nodes[call.out[2].key].bid = call.out[2].bid

\* C17 (callers insert only non-empty identifiers): every occupied head slot
\* and every overflow node stores a record with a non-empty identifier, and
\* every unoccupied head slot stores the default record.
C17_SentinelInEmptySlots ==
    /\ \A p \in Occupied : Deref(p).bid.bidId # ""
    /\ \A i \in Buckets : nodes[i].key = UINT_MAX => nodes[i].bid = DefaultBid

\* a Remove emptied a head slot while another head slot stays occupied
C17_Witness ==
    /\ call.op = "Remove" /\ call.path = "clear"
    /\ nodes[hash(call.bidId)].key = UINT_MAX
    /\ nodes[hash(call.bidId)].bid = DefaultBid
    /\ \E i \in Buckets : nodes[i].key # UINT_MAX /\ nodes[i].bid.bidId # ""

\* C18: for every table size from 1 to UINT_MAX and every hash value, the bucket
\* index is less than the table size and is not UINT_MAX, so the key that Insert
\* stores with a record (in a head slot or in a new overflow node) never reads
\* as the unoccupied marker, which only Node() and the clearing Remove write.
C18_MarkerNotAnIndex ==
    call.op = "hash"
    => /\ call.idx \in 0..(tableSize - 1)
       /\ call.idx # UINT_MAX
       /\ \A bid \in Bids : /\ FillHead(call.idx, bid).key # UINT_MAX
                            /\ NewNode(bid, call.idx).key # UINT_MAX
       /\ EmptyNode.key = UINT_MAX /\ ClearHead(NULL).key = UINT_MAX

\* the largest bucket index of the largest table
C18_Witness ==
    /\ call.op = "hash" /\ tableSize = UINT_MAX
    /\ call.raw = UINT_MAX - 1 /\ call.idx = UINT_MAX - 1

\* C19: the destructor deletes every overflow node of every bucket exactly once,
\* deletes no cell twice, reads no node after its delete, and leaves no
\* overflow node allocated.
C19_TeardownReleasesAll ==
    [][call'.op = "~HashTable"
       => /\ Range(call'.out) = {p[2] : p \in OverflowNodes}
          /\ Range(call'.out) = allocated
          /\ Len(call'.out) = Cardinality(allocated)
          /\ call'.path = "clean"
          /\ allocated' = {}]_vars

\* a destructor run that deleted both nodes of an overflow chain
C19_Witness ==
    /\ call.op = "~HashTable" /\ call.path = "clean"
    /\ Len(call.out) = 2 /\ call.out[1] # call.out[2]
    /\ allocated = {}

\* the places (bucket, position) at which cell a occurs in an overflow chain
PlacesOf(a) ==
    {pl \in UNION {{<<i, k>> : k \in DOMAIN Overflow(i)} : i \in ChainedBuckets} :
        Overflow(pl[1])[pl[2]] = HeapPtr(a)}
\* every allocated node is on exactly one chain, once, and chains hold
\* allocated nodes only
NodesOwned ==
    /\ \A a \in allocated : Cardinality(PlacesOf(a)) = 1
    /\ \A i \in ChainedBuckets : \A p \in Range(Overflow(i)) :
          p[1] = "heap" /\ p[2] \in allocated
\* the occupied nodes of the bucket of id that store id
FoundInBucket(id) ==
    {p \in Range(Bucket(hash(id))) \cap Occupied : Deref(p).bid.bidId = id}
\* the node a Remove of id has to delete: the first chained node when the
\* head stores id, else the overflow node that stores id
NodeToDelete(id) ==
    IF SlotPtr(hash(id)) \in FoundInBucket(id) THEN {nodes[hash(id)].next}
    ELSE FoundInBucket(id)

\* C20: in every reachable state every allocated overflow node is on the chain
\* of exactly one head slot and no chain holds a deleted node; a Remove that
\* finds its identifier in a bucket of more than one record deletes exactly one
\* node, the promoted or the unlinked one.
C20_NodeOwnership ==
    /\ []NodesOwned
    /\ [][call'.op = "Remove"
          => \A id \in Ids :
                (call'.bidId = id /\ FoundInBucket(id) # {} /\ Len(Bucket(hash(id))) >= 2)
                => /\ call'.path \in {"promote", "unlink"}
                   /\ \E a \in allocated :
                         /\ allocated' = allocated \ {a}
                         /\ NodeToDelete(id) = {HeapPtr(a)}]_vars

\* a Remove that promoted the first node of a two-node chain: one node was
\* deleted and the other stays owned by the head
C20_Witness ==
    /\ call.op = "Remove" /\ call.path = "promote"
    /\ Cardinality(allocated) = 1
    /\ nodes[hash(call.bidId)].next \in {HeapPtr(a) : a \in allocated}
    /\ NodesOwned

\* no record lies behind an unoccupied head: heads marked empty have no chain
EmptyHeadsUnchained == \A i \in Buckets : nodes[i].key = UINT_MAX => nodes[i].next = NULL

\* C21: in every reachable state a head slot with key == UINT_MAX has
\* next == nullptr; so an Insert that fills an empty slot overwrites a null
\* next and leaves every allocated overflow node on its chain, and the records
\* Search and Remove can find behind a head are behind an occupied head.
C21_EmptyHeadNoChain ==
    /\ []EmptyHeadsUnchained
    /\ [][(call'.op = "Insert" /\ call'.path = "fill")
          => \A i \in Buckets :
                (call'.at = SlotPtr(i))
                => /\ nodes[i].key = UINT_MAX /\ nodes[i].next = NULL
                   /\ nodes'[i].next = NULL
                   /\ allocated' = allocated
                   /\ OverflowNodes' = OverflowNodes]_vars

\* an Insert filled an empty head slot while another bucket keeps an overflow
\* chain, every node of which is still on that chain
C21_Witness ==
    /\ call.op = "Insert" /\ call.path = "fill"
    /\ allocated # {}
    /\ OverflowNodes = {HeapPtr(a) : a \in allocated}
    /\ EmptyHeadsUnchained

\* C22: in every reachable state each occupied head slot nodes[i] and each
\* overflow node on the chain of bucket i holds a record whose identifier
\* hashes to i, and each such overflow node has key == i.
C22_StoredInHashedBucket ==
    /\ \A i \in Buckets :
          nodes[i].key # UINT_MAX => hash(nodes[i].bid.bidId) = i
    /\ \A i \in ChainedBuckets : \A p \in Range(Overflow(i)) :
          hash(Deref(p).bid.bidId) = i /\ Deref(p).key = i

\* two buckets hold records at once, one of them with an overflow node, each
\* record in the bucket of its identifier
C22_Witness ==
    /\ tableSize > 1
    /\ \E i \in ChainedBuckets : \E j \in Buckets \ {i} :
          /\ nodes[j].key # UINT_MAX
          /\ hash(nodes[j].bid.bidId) = j
          /\ \A p \in Range(Overflow(i)) : hash(Deref(p).bid.bidId) = i /\ Deref(p).key = i
          /\ hash(nodes[j].bid.bidId) # hash(nodes[i].bid.bidId)

\* the number of rounds of a loop `while (p != nullptr) p = p->next`, as far
\* as fuel allows
RECURSIVE WalkLength(_, _)
WalkLength(p, fuel) ==
    IF fuel = 0 \/ p = NULL THEN 0 ELSE 1 + WalkLength(Deref(p).next, fuel - 1)
\* the chain of bucket i is finite, acyclic and null-terminated: following
\* next from the head meets allocated heap nodes, none twice, and then nullptr
ChainEnds(i) ==
    LET ch == Overflow(i)
    IN  /\ WalkLength(nodes[i].next, Fuel) < Fuel
        /\ \A k \in DOMAIN ch : ch[k][1] = "heap" /\ ch[k][2] \in allocated
        /\ \A k, l \in DOMAIN ch : ch[k] = ch[l] => k = l
        /\ Deref(ch[Len(ch)]).next = NULL

\* C23: in every reachable state every overflow chain is finite, acyclic and
\* null-terminated, a walk of it takes no more rounds than the bucket has
\* records, and the walk of Insert ends with an update or an append for every
\* identifier; so Insert, Remove, Search and PrintAll return.
C23_WalksTerminate ==
    \A i \in Buckets :
       \/ nodes[i].next = NULL
       \/ /\ ChainEnds(i)
          /\ WalkLength(nodes[i].next, Fuel) < Len(BucketIds(i))
          /\ WalkLength(nodes[i].next, Fuel) <= Cardinality(allocated)
          /\ \A id \in Ids :
                InsertWalk(SlotPtr(i), id, Fuel)[1] \in {"update", "append"}

\* a Search walked a chain of two overflow nodes to its last node and returned
C23_Witness ==
    /\ call.op = "Search"
    /\ \E i \in ChainedBuckets :
          /\ Len(Overflow(i)) = 2
          /\ SearchNode(call.bidId) = Overflow(i)[2]
          /\ ChainEnds(i)
          /\ WalkLength(nodes[i].next, Fuel) = 2

\* C24 as stated: hash(int) returns key mod tableSize, an index in
\* 0..tableSize-1, for every int key including the negative ones.
C24_Original ==
    call.op = "hash(int)"
    => call.idx \in 0..(tableSize - 1) /\ call.idx = call.raw % tableSize

\* C24 as amended: hash(int) returns an index in 0..tableSize-1 for every int
\* key; for a key >= 0 it is key mod tableSize, and for a key < 0 it is
\* (key + UINT_MAX + 1) mod tableSize, the key mod tableSize shifted by
\* (UINT_MAX + 1) mod tableSize.
C24_IntHashInRange ==
    call.op = "hash(int)"
    => LET wrap == ((UINT_MAX % tableSize) + 1) % tableSize
       IN  /\ call.idx \in 0..(tableSize - 1)
           /\ call.raw >= 0 => call.idx = call.raw % tableSize
           /\ call.raw < 0 => call.idx = ((call.raw % tableSize) + wrap) % tableSize

\* a negative key hashed in a table of the default size: the index is in range
\* and is not key mod tableSize
C24_Witness ==
    /\ call.op = "hash(int)" /\ call.raw < 0 /\ tableSize = DEFAULT_SIZE
    /\ call.idx \in 0..(tableSize - 1)
    /\ call.idx # call.raw % tableSize

====
